---- MODULE Spec2Model ----
(***************************************************************************)
(* Model of the canvas-prototype synchronisation server (the WebSocket     *)
(* message handler, the room history map and the broadcast fan-out) and of *)
(* the client component (the remote stroke reconstruction of ws.onmessage  *)
(* and the batched send path of the pointer handlers).                     *)
(* One action per event-loop turn; a turn is atomic because server and     *)
(* client are single-threaded dispatchers.                                 *)
(***************************************************************************)
EXTENDS Integers, Sequences, FiniteSets, TLC

\* ------------------------------------------------------------------ bounds
\* events the server takes in over a run
MaxAccepted == 2

\* ------------------------------------------------------------ JS values
Null == "<null>"
Undefined == "<undefined>"

\* the connections the server can hold at once, by name
Sessions == {"s1", "s2"}

\* the mounted components (browser pages); each makes its connections one
\* after another with connectWs
Pages == {"A", "B"}
\* no page behind a session, no socket held by a page
NoPage == "<nopage>"
NoSocket == "<nosocket>"

\* room names a client may put in a join (the room input may be left empty)
RoomNames == {"r1", "r2", ""}

\* !ws.room on the values a room binding can hold
Falsy(v) == v = Null \/ v = ""

\* ------------------------------------------------------------ wire frames
\* A frame is the text a client sent.  syntax "bad" is text that is not
\* JSON, "null" the JSON text null, "obj" a JSON object with the listed
\* members (Undefined = member absent).
\* The handler compares msg.type with "join" only, so one stroke type
\* ("move") and one type outside begin/move/end ("clear") are sent.
EventTypes == {"move", "clear"}
\* the room member a client writes into its events: the client sends its
\* room input, which need not be the room its connection joined
ClientRooms == {"r2"}
Bodies == {"a"}

\* the userId member a client writes; the server copies it through unread
UserIds == {"u1"}

BadFrame == [syntax |-> "bad", type |-> Undefined, room |-> Undefined,
             userId |-> Undefined, body |-> Undefined]
NullFrame == [syntax |-> "null", type |-> Undefined, room |-> Undefined,
              userId |-> Undefined, body |-> Undefined]
JoinFrames == [syntax : {"obj"}, type : {"join"}, room : RoomNames,
               userId : UserIds, body : {Undefined}]
EventFrames == [syntax : {"obj"}, type : EventTypes, room : ClientRooms,
                userId : UserIds, body : Bodies]
Frames == {BadFrame, NullFrame} \cup JoinFrames \cup EventFrames

\* JSON.parse(raw.toString()) succeeds
Parses(raw) == raw.syntax # "bad"

\* the value JSON.parse returns
JSONparse(raw) ==
  IF raw.syntax = "null" THEN [kind |-> "null"]
  ELSE [kind |-> "obj", type |-> raw.type, room |-> raw.room,
        userId |-> raw.userId, body |-> raw.body]

\* msg.type of a parsed object
TypeOf(msg) == msg.type

\* {...msg}: the own enumerable members of the parsed object
Spread(msg) ==
  [type |-> msg.type, room |-> msg.room, userId |-> msg.userId, body |-> msg.body]

\* variant: { room: ws.room, ...msg }, a client-supplied room wins
StampClientWins(msg, r) ==
  IF Spread(msg).room # Undefined THEN Spread(msg) ELSE [Spread(msg) EXCEPT !.room = r]

\* { ...msg, room: ws.room } after the JSON round trip
Stamp(msg, r) == [Spread(msg) EXCEPT !.room = r]

\* JSON.stringify({type:"history", room, events})
HistoryMsg(r, events) == [type |-> "history", room |-> r, events |-> events]

\* variant: unshift instead of push
PushFront(h, e) == <<e>> \o h

\* variant: the event is pushed onto a copy of the array and lost
PushLost(h, e) == h

\* Array.prototype.push on a room's history
Push(h, e) == Append(h, e)

\* ------------------------------------------------------------------ state
VARIABLES
  clients,      \* wss.clients
  readyState,   \* client.readyState of every session
  room,         \* ws.room
  roomHistory,  \* Map room -> events[]
  sent,         \* per session, the data passed to its send() since its latest
                \* join, in call order (the History reply first)
  accepted,     \* per room, the events the handler took in for it, in
                \* processing order
  crashed,      \* an exception escaped the message handler
  caught,       \* the latest turn ended in the catch of the parse guard
  remoteStroke, \* per page, remoteStrokeRef.current: userId -> StrokeState
  canvas,       \* per page, the polylines ctx.stroke() painted in the
                \* latest ws.onmessage turn, in order
  wsRef,        \* wsRef.current: the number of the connectWs call that made it
  wsState,      \* wsRef.current.readyState
  localDrawing, \* localDrawingRef.current
  moveBuffer,   \* moveBufferRef.current
  flushTimer,   \* flushTimerRef.current != null
  wire,         \* what the component passed to ws.send, in call order, each
                \* with the connection it was sent on
  sampled,      \* per pointer sample pushed, the connection and the stroke
                \* (number of begins sent) it was pushed under
  pageOf,       \* per session, the page whose connectWs opened it
  wsOf,         \* per page, the session behind wsRef.current while that
                \* socket is open on the page's side
  pending,      \* the sockets a page created (new WebSocket) that the
                \* server's "connection" callback has not run for yet
  opened,       \* the sockets whose ws.onopen ran: their join is sent
  inflight,     \* per session, the frames the server transmitted that the
                \* page's ws.onmessage has not run on yet, oldest first
  origin        \* per room, the session each history entry arrived on

serverVars == <<clients, readyState, room, roomHistory, sent, accepted, crashed, caught>>
remoteVars == <<remoteStroke, canvas>>
localVars == <<wsRef, wsState, localDrawing, moveBuffer, flushTimer, wire, sampled>>
netVars == <<pageOf, wsOf, pending, opened, inflight>>
vars == <<serverVars, remoteVars, localVars, netVars, origin>>

\* roomHistory.set(r, h)
MapSet(m, r, h) == [k \in (DOMAIN m) \cup {r} |-> IF k = r THEN h ELSE m[k]]

Init ==
  /\ clients = {}
  /\ readyState = [s \in Sessions |-> "CLOSED"]
  /\ room = [s \in Sessions |-> Null]
  /\ roomHistory = <<>>
  /\ sent = [s \in Sessions |-> <<>>]
  /\ accepted = [r \in RoomNames |-> <<>>]
  /\ crashed = FALSE
  /\ caught = FALSE
  /\ remoteStroke = [p \in Pages |-> <<>>]
  /\ canvas = [p \in Pages |-> <<>>]
  /\ wsRef = 1
  /\ wsState = "CONNECTING"
  /\ localDrawing = FALSE
  /\ moveBuffer = <<>>
  /\ flushTimer = FALSE
  /\ wire = <<>>
  /\ sampled = <<>>
  /\ pageOf = [s \in Sessions |-> NoPage]
  /\ wsOf = [p \in Pages |-> NoSocket]
  /\ pending = {}
  /\ opened = {}
  /\ inflight = [s \in Sessions |-> <<>>]
  /\ origin = [r \in RoomNames |-> <<>>]

\* number of events taken in so far, over all rooms
RECURSIVE Total(_, _)
Total(f, S) ==
  IF S = {} THEN 0
  ELSE LET r == CHOOSE x \in S : TRUE IN Len(f[r]) + Total(f, S \ {r})

\* ---------------------------------------------------------------- broadcast
\* variant: the `client === except` test is missing
broadcastEcho(r, data, except) ==
  [c \in Sessions |->
     IF c \notin clients THEN sent[c]
     ELSE IF readyState[c] # "OPEN" THEN sent[c]
     ELSE IF room[c] # r THEN sent[c]
     ELSE Append(sent[c], data)]

\* variant: the readyState test is missing
broadcastNotReady(r, data, except) ==
  [c \in Sessions |->
     IF c \notin clients THEN sent[c]
     ELSE IF room[c] # r THEN sent[c]
     ELSE IF c = except THEN sent[c]
     ELSE Append(sent[c], data)]

\* function broadcast(room, data, except): the outboxes after the forEach
broadcast(r, data, except) ==
  [c \in Sessions |->
     IF c \notin clients THEN sent[c]
     ELSE IF readyState[c] # "OPEN" THEN sent[c]
     ELSE IF room[c] # r THEN sent[c]
     ELSE IF c = except THEN sent[c]
     ELSE Append(sent[c], data)]

\* ------------------------------------------------------------------ turns
\* wss.on("connection"): a new session, ws.room = null
Connect(ws) ==
  /\ ~crashed
  /\ ws \notin clients
  /\ clients' = clients \cup {ws}
  /\ readyState' = [readyState EXCEPT ![ws] = "OPEN"]
  /\ room' = [room EXCEPT ![ws] = Null]
  /\ caught' = FALSE
  /\ UNCHANGED <<roomHistory, sent, accepted, crashed>>

\* the transport of a session stops being ready to send
BeginClose(ws) ==
  /\ ~crashed
  /\ ws \in clients
  /\ readyState[ws] = "OPEN"
  /\ readyState' = [readyState EXCEPT ![ws] = "CLOSING"]
  /\ caught' = FALSE
  /\ UNCHANGED <<clients, room, roomHistory, sent, accepted, crashed>>

\* the transport disconnects: the session leaves wss.clients and its
\* object, with what was sent on it, is gone
Close(ws) ==
  /\ ~crashed
  /\ ws \in clients
  /\ readyState[ws] = "CLOSING"
  /\ clients' = clients \ {ws}
  /\ readyState' = [readyState EXCEPT ![ws] = "CLOSED"]
  /\ room' = [room EXCEPT ![ws] = Null]
  /\ sent' = [sent EXCEPT ![ws] = <<>>]
  /\ caught' = FALSE
  /\ UNCHANGED <<roomHistory, accepted, crashed>>

\* variant: no try/catch around JSON.parse, the SyntaxError escapes
MalformedThrows(ws) ==
  /\ crashed' = TRUE
  /\ caught' = TRUE
  /\ UNCHANGED <<clients, readyState, room, roomHistory, sent, accepted>>

\* catch { return; }
DropMalformed(ws) ==
  /\ caught' = TRUE
  /\ UNCHANGED <<clients, readyState, room, roomHistory, sent, accepted, crashed>>

\* msg.type on null: the TypeError leaves the handler
Throw(ws) ==
  /\ crashed' = TRUE
  /\ caught' = FALSE
  /\ UNCHANGED <<clients, readyState, room, roomHistory, sent, accepted>>

\* variant: the has() test is missing, every join resets the room
EnsureRoomReset(m, r) == MapSet(m, r, <<>>)

\* if (!roomHistory.has(r)) roomHistory.set(r, [])
EnsureRoom(m, r) == IF r \in DOMAIN m THEN m ELSE MapSet(m, r, <<>>)


\* variant: the reply is built before the latest event reached the history
JoinSnapshotBehind(ws, msg) ==
  LET r == msg.room
      hist == EnsureRoom(roomHistory, r)
  IN /\ room' = [room EXCEPT ![ws] = r]
     /\ roomHistory' = hist
     /\ sent' = [sent EXCEPT ![ws] =
                   <<HistoryMsg(r, SubSeq(hist[r], 1, Len(hist[r]) - 1))>>]
     /\ caught' = FALSE
     /\ UNCHANGED <<clients, readyState, accepted, crashed>>

\* variant: a session that is already bound keeps its binding
JoinKeepsBinding(ws, msg) ==
  LET r == IF Falsy(room[ws]) THEN msg.room ELSE room[ws]
      hist == EnsureRoom(roomHistory, r)
  IN /\ room' = [room EXCEPT ![ws] = r]
     /\ roomHistory' = hist
     /\ sent' = [sent EXCEPT ![ws] = <<HistoryMsg(r, hist[r])>>]
     /\ caught' = FALSE
     /\ UNCHANGED <<clients, readyState, accepted, crashed>>

\* if (msg.type === "join") { ... return; }
Join(ws, msg) ==
  LET r == msg.room
      hist == EnsureRoom(roomHistory, r)
  IN /\ room' = [room EXCEPT ![ws] = r]
     /\ roomHistory' = hist
     /\ sent' = [sent EXCEPT ![ws] = <<HistoryMsg(r, hist[r])>>]
     /\ caught' = FALSE
     /\ UNCHANGED <<clients, readyState, accepted, crashed>>

\* if (!ws.room) return;
DropUnbound(ws) ==
  /\ caught' = FALSE
  /\ UNCHANGED <<clients, readyState, room, roomHistory, sent, accepted, crashed>>

\* stamp, append to the room history, broadcast
Accept(ws, msg) ==
  LET data == Stamp(msg, room[ws])
  IN /\ roomHistory' = [roomHistory EXCEPT ![room[ws]] = Push(@, data)]
     /\ sent' = broadcast(room[ws], data, ws)
     /\ accepted' = [accepted EXCEPT ![room[ws]] = Append(@, data)]
     /\ caught' = FALSE
     /\ UNCHANGED <<clients, readyState, room, crashed>>

\* ws.on("message", (raw) => { ... })
OnMessage(ws, raw) ==
  /\ ~crashed
  /\ ws \in clients
  /\ IF ~Parses(raw) THEN DropMalformed(ws)
     ELSE LET msg == JSONparse(raw) IN
       IF msg.kind = "null" THEN Throw(ws)
       ELSE IF TypeOf(msg) = "join" THEN Join(ws, msg)
       ELSE IF Falsy(room[ws]) THEN DropUnbound(ws)
       ELSE Accept(ws, msg)

\* the run may still take in an event
WithinBound == Total(accepted, RoomNames) < MaxAccepted

\* the server alone: the clients' side does not move
Next ==
  \/ \E ws \in Sessions : Connect(ws) /\ UNCHANGED <<remoteVars, localVars, netVars, origin>>
  \/ \E ws \in Sessions : BeginClose(ws) /\ UNCHANGED <<remoteVars, localVars, netVars, origin>>
  \/ \E ws \in Sessions : Close(ws) /\ UNCHANGED <<remoteVars, localVars, netVars, origin>>
  \/ \E ws \in Sessions : \E raw \in Frames \ EventFrames :
       OnMessage(ws, raw) /\ UNCHANGED <<remoteVars, localVars, netVars, origin>>
  \/ \E ws \in Sessions : \E raw \in EventFrames :
       WithinBound /\ OnMessage(ws, raw) /\ UNCHANGED <<remoteVars, localVars, netVars, origin>>

Spec == Init /\ [][Next]_vars

\* ------------------------------------------------------- who sent what
\* the handler's turn, with the session the frame arrived on noted beside
\* every event it pushes
Relay(ws, raw) ==
  /\ OnMessage(ws, raw)
  /\ origin' = IF accepted' # accepted
                 THEN [origin EXCEPT ![room[ws]] = Append(@, ws)]
                 ELSE origin
  /\ UNCHANGED <<remoteVars, localVars, netVars>>

RelayNext ==
  \/ \E ws \in Sessions : Connect(ws) /\ UNCHANGED <<remoteVars, localVars, netVars, origin>>
  \/ \E ws \in Sessions : BeginClose(ws) /\ UNCHANGED <<remoteVars, localVars, netVars, origin>>
  \/ \E ws \in Sessions : Close(ws) /\ UNCHANGED <<remoteVars, localVars, netVars, origin>>
  \/ \E ws \in Sessions : \E raw \in Frames \ EventFrames : Relay(ws, raw)
  \/ \E ws \in Sessions : \E raw \in EventFrames : WithinBound /\ Relay(ws, raw)

RelaySpec == Init /\ [][RelayNext]_vars

\* ======================================================== client, receiving
\* ------------------------------------------------------------------ bounds
\* events in one History snapshot
MaxSnapshot == 2

\* canvas points [x, y]
Points == {<<10, 10>>, <<12, 12>>, <<14, 14>>}
\* undefined where a point is expected (StrokeState.last, applyMove's from)
NoPoint == <<>>
\* an object with no members besides type, room and userId
NoMembers == <<>>

\* const userId = useMemo(() => uid(), []): one per page, written into
\* every frame the page sends, on whichever connection
UserOf == [p \in Pages |-> IF p = "A" THEN "u1" ELSE "u2"]
RemoteUsers == {UserOf[p] : p \in Pages}

\* the members of a begin besides type, room and userId
BeginBody(p) == [color |-> "#000", width |-> 2, p |-> p]
\* the members of a move besides type, room and userId
MoveBody(pts) == [pts |-> pts]

BeginEvent(r, u, p) == [type |-> "begin", room |-> r, userId |-> u, body |-> BeginBody(p)]
MoveEvent(r, u, pts) == [type |-> "move", room |-> r, userId |-> u, body |-> MoveBody(pts)]
EndEvent(r, u) == [type |-> "end", room |-> r, userId |-> u, body |-> NoMembers]

\* the pts arrays remote moves carry: empty, one point, two points
PtsArrays == {<<>>, <<(<<12, 12>>)>>, <<(<<12, 12>>), (<<14, 14>>)>>}

\* the events a client is sent, as the server stamped them for room r1
RemoteEvents ==
  {BeginEvent("r1", u, <<10, 10>>) : u \in RemoteUsers}
    \cup {MoveEvent("r1", u, pts) : u \in RemoteUsers, pts \in PtsArrays}
    \cup {EndEvent("r1", u) : u \in RemoteUsers}

\* all sequences over S of length at most n
RECURSIVE SeqsUpTo(_, _)
SeqsUpTo(S, n) ==
  IF n = 0 THEN {<<>>}
  ELSE LET shorter == SeqsUpTo(S, n - 1)
       IN shorter \cup {Append(q, e) : q \in {x \in shorter : Len(x) = n - 1}, e \in S}

Snapshots == SeqsUpTo(RemoteEvents, MaxSnapshot)

\* states.get(msg.userId) ?? { drawing: false }
GetState(states, u) ==
  IF u \in DOMAIN states THEN states[u] ELSE [drawing |-> FALSE, last |-> NoPoint]

\* msg.pts[msg.pts.length - 1]
LastOf(pts) == IF Len(pts) = 0 THEN NoPoint ELSE pts[Len(pts)]

\* applyMove(ctx, from, pts): the polylines it strokes
applyMove(from, pts) ==
  IF Len(pts) = 0 THEN <<>>
  ELSE IF from = NoPoint THEN <<pts>>
  ELSE << <<from>> \o pts >>

\* the move branch of handleRemoteEvent: the map after it
moveBranch(states, msg) ==
  MapSet(states, msg.userId,
         [GetState(states, msg.userId) EXCEPT !.drawing = TRUE,
                                              !.last = LastOf(msg.body.pts)])

\* variant: the path always starts at the first supplied point
strokesDetached(states, msg) ==
  IF msg.type = "move" THEN applyMove(NoPoint, msg.body.pts) ELSE <<>>

\* handleRemoteEvent(msg): the polylines it strokes
strokesOf(states, msg) ==
  IF msg.type = "move" THEN applyMove(GetState(states, msg.userId).last, msg.body.pts)
  ELSE <<>>

\* variant: the end branch leaves st.last as it was
handleRemoteEventKeepsLast(states, msg) ==
  IF msg.type = "begin"
    THEN MapSet(states, msg.userId, [drawing |-> TRUE, last |-> msg.body.p])
  ELSE IF msg.type = "move" THEN moveBranch(states, msg)
  ELSE IF msg.type = "end"
    THEN MapSet(states, msg.userId,
                [GetState(states, msg.userId) EXCEPT !.drawing = FALSE])
  ELSE states

\* handleRemoteEvent(msg): remoteStrokeRef.current after it
handleRemoteEvent(states, msg) ==
  IF msg.type = "begin"
    THEN MapSet(states, msg.userId, [drawing |-> TRUE, last |-> msg.body.p])
  ELSE IF msg.type = "move" THEN moveBranch(states, msg)
  ELSE IF msg.type = "end"
    THEN MapSet(states, msg.userId, [drawing |-> FALSE, last |-> NoPoint])
  ELSE states

\* for (const e of msg.events) handleRemoteEvent(e): the map after the loop
RECURSIVE replay(_, _)
replay(states, events) ==
  IF events = <<>> THEN states
  ELSE replay(handleRemoteEvent(states, Head(events)), Tail(events))

\* the polylines the loop strokes
RECURSIVE replayStrokes(_, _)
replayStrokes(states, events) ==
  IF events = <<>> THEN <<>>
  ELSE strokesOf(states, Head(events))
         \o replayStrokes(handleRemoteEvent(states, Head(events)), Tail(events))

\* remoteStrokeRef.current.clear()
Cleared == <<>>

\* variant: the history branch replays on top of the stale map
onHistoryNoClear(states, msg) == replay(states, msg.events)

\* the history branch of ws.onmessage: the map after it
onHistory(states, msg) == replay(Cleared, msg.events)

\* ws.onmessage of page c on a parsed message
onmessage(c, msg) ==
  IF msg.type = "history"
    THEN /\ remoteStroke' = [remoteStroke EXCEPT ![c] = onHistory(@, msg)]
         /\ canvas' = [canvas EXCEPT ![c] = replayStrokes(Cleared, msg.events)]
    ELSE /\ remoteStroke' = [remoteStroke EXCEPT ![c] = handleRemoteEvent(@, msg)]
         /\ canvas' = [canvas EXCEPT ![c] = strokesOf(remoteStroke[c], msg)]

\* the page whose receiving side is driven on its own
Viewer == "A"

\* one client fed live events and History snapshots, the server at rest
RemoteNext ==
  \/ \E msg \in RemoteEvents : onmessage(Viewer, msg) /\ UNCHANGED <<serverVars, localVars, netVars, origin>>
  \/ \E evs \in Snapshots : onmessage(Viewer, HistoryMsg("r1", evs)) /\ UNCHANGED <<serverVars, localVars, netVars, origin>>

RemoteSpec == Init /\ [][RemoteNext]_vars

\* ========================================================== client, sending
\* ------------------------------------------------------------------ bounds
\* pointer samples pushed over a run
MaxSamples == 3
\* connectWs calls over a run (the one on mount included)
MaxConnections == 2
\* begins sent over a run
MaxStrokes == 2

\* the begins sent so far
Begins == Len(SelectSeq(wire, LAMBDA m : m.type = "begin"))

\* ws.send(JSON.stringify(msg)) on wsRef.current
Send(w, type, pts) == Append(w, [conn |-> wsRef, type |-> type, pts |-> pts])

\* variant: the buffer is copied into the payload and not emptied
flushKeeps(w, buf) ==
  IF wsState # "OPEN" THEN [wire |-> w, buffer |-> buf]
  ELSE IF Len(buf) = 0 THEN [wire |-> w, buffer |-> buf]
  ELSE [wire |-> Send(w, "move", buf), buffer |-> buf]

\* flushMoveBuffer(): the send log and the buffer after it
flushMoveBuffer(w, buf) ==
  IF wsState # "OPEN" THEN [wire |-> w, buffer |-> buf]
  ELSE IF Len(buf) = 0 THEN [wire |-> w, buffer |-> buf]
  ELSE [wire |-> Send(w, "move", buf), buffer |-> <<>>]

\* ws.onopen: the join of the room the connection was made for
onopen ==
  /\ wsState = "CONNECTING"
  /\ wsState' = "OPEN"
  /\ wire' = Send(wire, "join", <<>>)
  /\ UNCHANGED <<wsRef, localDrawing, moveBuffer, flushTimer, sampled>>

\* the transport of wsRef.current fails or is closed by the peer
onclose ==
  /\ wsState \in {"CONNECTING", "OPEN"}
  /\ wsState' = "CLOSED"
  /\ UNCHANGED <<wsRef, localDrawing, moveBuffer, flushTimer, wire, sampled>>

\* changeRoom: wsRef.current?.close(); setupCanvas(); connectWs(room)
changeRoom ==
  /\ wsRef < MaxConnections
  /\ wsRef' = wsRef + 1
  /\ wsState' = "CONNECTING"
  /\ UNCHANGED <<localDrawing, moveBuffer, flushTimer, wire, sampled>>

\* onPointerDown
onPointerDown ==
  /\ Begins < MaxStrokes
  /\ IF wsState # "OPEN"
       THEN UNCHANGED <<localDrawing, wire>>
       ELSE /\ localDrawing' = TRUE
            /\ wire' = Send(wire, "begin", <<>>)
  /\ UNCHANGED <<wsRef, wsState, moveBuffer, flushTimer, sampled>>

\* onPointerMove: the sample is pushed and a flush is scheduled
onPointerMove ==
  /\ Len(sampled) < MaxSamples
  /\ IF ~localDrawing
       THEN UNCHANGED <<moveBuffer, flushTimer, sampled>>
       ELSE /\ moveBuffer' = Append(moveBuffer, Len(sampled) + 1)
            /\ sampled' = Append(sampled, [conn |-> wsRef, stroke |-> Begins])
            /\ flushTimer' = TRUE
  /\ UNCHANGED <<wsRef, wsState, localDrawing, wire>>

\* onPointerUp (also onPointerCancel)
onPointerUp ==
  IF ~localDrawing \/ wsState # "OPEN"
    THEN UNCHANGED localVars
    ELSE LET f == flushMoveBuffer(wire, moveBuffer)
         IN /\ localDrawing' = FALSE
            /\ moveBuffer' = f.buffer
            /\ wire' = Send(f.wire, "end", <<>>)
            /\ UNCHANGED <<wsRef, wsState, flushTimer, sampled>>

\* the setTimeout callback of scheduleFlush
onFlushTimer ==
  /\ flushTimer
  /\ flushTimer' = FALSE
  /\ LET f == flushMoveBuffer(wire, moveBuffer)
     IN /\ moveBuffer' = f.buffer
        /\ wire' = f.wire
  /\ UNCHANGED <<wsRef, wsState, localDrawing, sampled>>

\* the turns of the component's send path, server and receiving side at rest
LocalNext ==
  \/ onopen /\ UNCHANGED <<serverVars, remoteVars, netVars, origin>>
  \/ onclose /\ UNCHANGED <<serverVars, remoteVars, netVars, origin>>
  \/ changeRoom /\ UNCHANGED <<serverVars, remoteVars, netVars, origin>>
  \/ onPointerDown /\ UNCHANGED <<serverVars, remoteVars, netVars, origin>>
  \/ onPointerMove /\ UNCHANGED <<serverVars, remoteVars, netVars, origin>>
  \/ onPointerUp /\ UNCHANGED <<serverVars, remoteVars, netVars, origin>>
  \/ onFlushTimer /\ UNCHANGED <<serverVars, remoteVars, netVars, origin>>

LocalSpec == Init /\ [][LocalNext]_vars

\* an armed timer fires: setTimeout runs its callback
LocalFairSpec == LocalSpec /\ WF_vars(onFlushTimer /\ UNCHANGED <<serverVars, remoteVars, netVars, origin>>)

\* ===================================================== server and its pages
\* The server and the pages run in different processes.  A frame the
\* server transmits is under way until the page's ws.onmessage runs on it,
\* and server turns and other pages' turns come in between; a frame under
\* way when the connection goes is never handled.  On every connection a
\* page sends its join first and once (ws.onopen); its events after that
\* are taken in any order: a superset of what its pointer handlers send.
\* A frame a page sent is taken up in the server's turn on it.
\* wsOf[p] is wsRef.current of page p here; localVars are the send path of
\* the one page driven on its own and stay as they are.
\* ------------------------------------------------------------------ bounds
\* events the server takes in over a run of the whole system
MaxRelayed == 3

\* the room the pages join
SysRooms == {"r1"}

\* const join: JoinMsg = { type: "join", room: currentRoom, userId }
ClientJoin(p, r) ==
  [syntax |-> "obj", type |-> "join", room |-> r, userId |-> UserOf[p],
   body |-> NoMembers]
\* const msg: BeginMsg = { type: "begin", room, userId, color, width, p }
ClientBegin(p) ==
  [syntax |-> "obj", type |-> "begin", room |-> "r1", userId |-> UserOf[p],
   body |-> BeginBody(<<10, 10>>)]
\* const payload: MoveMsg = { type: "move", room, userId, pts }
ClientMove(p) ==
  [syntax |-> "obj", type |-> "move", room |-> "r1", userId |-> UserOf[p],
   body |-> MoveBody(<<(<<12, 12>>), (<<14, 14>>)>>)]
\* const msg: EndMsg = { type: "end", room, userId }
ClientEnd(p) ==
  [syntax |-> "obj", type |-> "end", room |-> "r1", userId |-> UserOf[p],
   body |-> NoMembers]
\* the events the pages are made to send: page A draws a whole stroke,
\* the other pages only press the pointer
ClientEvents(p) ==
  IF p = "A" THEN {ClientBegin(p), ClientMove(p), ClientEnd(p)}
  ELSE {ClientBegin(p)}

\* connectWs on page p (on mount, or in changeRoom after
\* wsRef.current?.close()): new WebSocket(WS_URL) is socket ws, still
\* CONNECTING, and becomes wsRef.current; the server has not seen it.  The
\* socket the page held before is closed on the page's side: frames under
\* way to it are not handled and its onopen, if it has not run, never
\* runs.  The server keeps or still makes a session of it (the close
\* reaches the server later or not at all).  Every socket of a run has a
\* name of its own.
connectWs(p, ws) ==
  /\ pageOf[ws] = NoPage
  /\ pageOf' = [pageOf EXCEPT ![ws] = p]
  /\ wsOf' = [wsOf EXCEPT ![p] = ws]
  /\ pending' = pending \cup {ws}
  /\ inflight' = [c \in Sessions |-> IF c = wsOf[p] THEN <<>> ELSE inflight[c]]
  /\ UNCHANGED <<serverVars, opened, remoteVars, localVars, origin>>

\* wss.on("connection") for a socket a page created, whether or not the
\* page still holds it
SysConnect(ws) ==
  /\ ws \in pending
  /\ Connect(ws)
  /\ pending' = pending \ {ws}
  /\ UNCHANGED <<pageOf, wsOf, opened, inflight, remoteVars, localVars, origin>>

\* the server's side of a connection stops being ready to send
SysBeginClose(ws) ==
  BeginClose(ws) /\ UNCHANGED <<netVars, remoteVars, localVars, origin>>

\* the server's side of a connection is gone; frames it transmitted before
\* may still be under way
SysClose(ws) == Close(ws) /\ UNCHANGED <<netVars, remoteVars, localVars, origin>>

\* ws.onclose on page p: its socket is closed, whichever side or the
\* network ended it (or the page closed it on unmount); what was under way
\* to it is never handled and its onopen, if it has not run, never runs.
\* The server may still make a session of a socket closed while CONNECTING
PageClose(p) ==
  /\ wsOf[p] # NoSocket
  /\ wsOf' = [wsOf EXCEPT ![p] = NoSocket]
  /\ inflight' = [inflight EXCEPT ![wsOf[p]] = <<>>]
  /\ UNCHANGED <<serverVars, remoteVars, localVars, pageOf, pending, opened, origin>>

\* the page behind session c still has it as its open socket
Listening(c) == pageOf[c] # NoPage /\ wsOf[pageOf[c]] = c

\* ws.onopen of socket ws on its page, once the server has taken the
\* connection: the page sends its join
PageOpen(ws) ==
  /\ Listening(ws)
  /\ ws \notin pending
  /\ ws \notin opened
  /\ opened' = opened \cup {ws}
  /\ UNCHANGED <<serverVars, remoteVars, localVars, pageOf, wsOf, pending, inflight, origin>>

\* the server's turn on raw from ws puts a frame on the wire to c: the
\* History reply if ws is ready to send (send() on a socket that is not
\* OPEN transmits nothing), the event for every session broadcast sends to
Transmits(ws, raw, c) ==
  IF TypeOf(JSONparse(raw)) = "join" THEN c = ws /\ readyState[ws] = "OPEN"
  ELSE sent'[c] # sent[c]

\* ws.on("message") on a frame from the page behind ws; what it sends is
\* under way to the pages from then on
ServerTurn(ws, raw) ==
  /\ OnMessage(ws, raw)
  /\ inflight' = [c \in Sessions |->
       IF Transmits(ws, raw, c) /\ Listening(c)
         THEN Append(inflight[c], sent'[c][Len(sent'[c])])
         ELSE inflight[c]]
  /\ UNCHANGED <<pageOf, wsOf, pending, opened, remoteVars, localVars, origin>>

\* ws.onmessage on the page behind ws, on the oldest frame under way
PageTurn(ws) ==
  /\ Listening(ws)
  /\ inflight[ws] # <<>>
  /\ onmessage(pageOf[ws], Head(inflight[ws]))
  /\ inflight' = [inflight EXCEPT ![ws] = Tail(@)]
  /\ UNCHANGED <<serverVars, localVars, pageOf, wsOf, pending, opened, origin>>

SystemNext ==
  \/ \E p \in Pages : \E ws \in Sessions : connectWs(p, ws)
  \/ \E ws \in Sessions : SysConnect(ws)
  \/ \E ws \in Sessions : SysBeginClose(ws)
  \/ \E ws \in Sessions : SysClose(ws)
  \/ \E p \in Pages : PageClose(p)
  \/ \E ws \in Sessions : PageOpen(ws)
  \/ \E ws \in {c \in clients : c \in opened /\ room[c] = Null} : \E r \in SysRooms :
       ServerTurn(ws, ClientJoin(pageOf[ws], r))
  \/ \E ws \in {c \in clients : c \in opened /\ room[c] # Null} :
       \E raw \in ClientEvents(pageOf[ws]) :
         Total(accepted, RoomNames) < MaxRelayed /\ ServerTurn(ws, raw)
  \/ \E ws \in Sessions : PageTurn(ws)

SystemSpec == Init /\ [][SystemNext]_vars

\* ================================================================ properties
Last(q) == q[Len(q)]
Elems(q) == {q[i] : i \in 1..Len(q)}

IsPrefix(a, b) == Len(a) <= Len(b) /\ SubSeq(b, 1, Len(a)) = a

\* a is an order-preserving subsequence of b
RECURSIVE IsSubseq(_, _)
IsSubseq(a, b) ==
  IF a = <<>> THEN TRUE
  ELSE IF b = <<>> THEN FALSE
  ELSE IF Head(a) = Head(b) THEN IsSubseq(Tail(a), Tail(b))
  ELSE IsSubseq(a, Tail(b))

IsHistory(m) == m.type = "history"
IsLive(m) == m.type # "history"

\* the live (broadcast) events of room r in an outbox, in delivery order
RECURSIVE LiveOf(_, _)
LiveOf(r, q) ==
  IF q = <<>> THEN <<>>
  ELSE (IF IsLive(Head(q)) /\ Head(q).room = r THEN <<Head(q)>> ELSE <<>>) \o LiveOf(r, Tail(q))

HistoryOf(r) == IF r \in DOMAIN roomHistory THEN roomHistory[r] ELSE <<>>

\* this turn took in an event
AcceptStep == \E r \in RoomNames : Len(accepted'[r]) = Len(accepted[r]) + 1

ServerState == <<clients, readyState, room, roomHistory, sent, accepted, crashed>>

\* C1: the events array of the History message sent to a session joining
\* room r equals, in order, the events the server accepted for r before.
C1_HistoryIsAcceptOrder ==
  [][\A ws \in clients : \A raw \in JoinFrames :
       OnMessage(ws, raw) =>
         /\ Len(sent'[ws]) = 1
         /\ IsHistory(sent'[ws][1])
         /\ sent'[ws][1].room = raw.room
         /\ sent'[ws][1].events = accepted[raw.room]]_vars

\* a late joiner holds a History with two different events
C1_Witness ==
  \E ws \in clients :
    /\ Len(sent[ws]) = 1
    /\ IsHistory(sent[ws][1])
    /\ Len(sent[ws][1].events) = 2
    /\ sent[ws][1].events[1] # sent[ws][1].events[2]
    /\ sent[ws][1].events = accepted[room[ws]]

\* C2: the session that sent an accepted event is never sent that event.
C2_NoEcho ==
  [][\A ws \in clients : \A raw \in EventFrames :
       (AcceptStep /\ OnMessage(ws, raw)) => sent'[ws] = sent[ws]]_vars

\* two OPEN sessions joined the same empty room; its one event reached one
\* of them and not the other, which therefore sent it
C2_Witness ==
  \E a \in clients : \E b \in clients \ {a} : \E r \in RoomNames :
    /\ readyState[a] = "OPEN" /\ readyState[b] = "OPEN"
    /\ room[a] = r /\ room[b] = r
    /\ Len(roomHistory[r]) = 1
    /\ sent[a] = <<HistoryMsg(r, <<>>)>>
    /\ sent[b] = <<HistoryMsg(r, <<>>), roomHistory[r][1]>>

\* C3: a broadcast reaches exactly the sessions that are OPEN, bound to the
\* sender's room and not the sender; nothing is delivered at any later turn.
C3_ExactRecipients ==
  [][/\ \A ws \in clients : \A raw \in EventFrames :
          (AcceptStep /\ OnMessage(ws, raw)) =>
            \A c \in Sessions :
              sent'[c] = IF /\ c \in clients
                            /\ readyState[c] = "OPEN"
                            /\ room[c] = room[ws]
                            /\ c # ws
                         THEN Append(sent[c], Last(accepted'[room[ws]]))
                         ELSE sent[c]
     /\ \A c \in Sessions :
          (sent'[c] # sent[c] /\ c \in clients') =>
            \/ Len(sent'[c]) = 1 /\ IsHistory(sent'[c][1]) /\ ~AcceptStep
            \/ /\ AcceptStep
               /\ Len(sent'[c]) = Len(sent[c]) + 1
               /\ SubSeq(sent'[c], 1, Len(sent[c])) = sent[c]
               /\ Last(sent'[c]) = Last(accepted'[Last(sent'[c]).room])]_vars

\* d sent both events of room r (it holds neither); c received the first,
\* stopped being ready to send, and was skipped for the second for good
C3_Witness ==
  \E c \in clients : \E d \in clients \ {c} : \E r \in RoomNames :
    /\ room[c] = r /\ room[d] = r
    /\ readyState[c] = "CLOSING" /\ readyState[d] = "OPEN"
    /\ Len(roomHistory[r]) = 2
    /\ roomHistory[r][1] # roomHistory[r][2]
    /\ sent[d] = <<HistoryMsg(r, <<>>)>>
    /\ sent[c] = <<HistoryMsg(r, <<>>), roomHistory[r][1]>>

\* C4: while a session is Unbound (no join processed on it), a message
\* other than join changes nothing: no history, no room, no outbox, no
\* binding, and the server keeps running.
C4_UnboundIgnoresAll ==
  [][\A ws \in clients : \A raw \in Frames \ JoinFrames :
       (room[ws] = Null /\ OnMessage(ws, raw)) => UNCHANGED ServerState]_vars

\* C5: every stored and every broadcast event carries the room its sender
\* was bound to when it was received; a history holds only its room's events.
C5_ServerStampsRoom ==
  /\ [](/\ \A r \in DOMAIN roomHistory : \A e \in Elems(roomHistory[r]) : e.room = r
        /\ \A c \in Sessions : \A m \in Elems(sent[c]) :
             IsLive(m) => m \in Elems(accepted[m.room]))
  /\ [][\A ws \in clients : \A raw \in EventFrames :
          (AcceptStep /\ OnMessage(ws, raw)) =>
            /\ Last(roomHistory'[room[ws]]).room = room[ws]
            /\ Len(roomHistory'[room[ws]]) = Len(roomHistory[room[ws]]) + 1
            /\ \A c \in Sessions :
                 sent'[c] # sent[c] => Last(sent'[c]).room = room[ws]]_vars

\* a client that writes room "r2" into its events was bound to "r1": its
\* event is stored in, and was broadcast with, room "r1"
C5_Witness ==
  \E c \in clients :
    /\ ClientRooms = {"r2"}
    /\ "r1" \in DOMAIN roomHistory
    /\ Len(roomHistory["r1"]) >= 1
    /\ room[c] = "r1"
    /\ Len(sent[c]) >= 2
    /\ sent[c][2] \in Elems(roomHistory["r1"])
    /\ sent[c][2].room = "r1"

\* C6: per room, broadcast order equals append order: the live events a
\* session holds for a room are an order-preserving subsequence of that
\* room's history, and an event is broadcast in the turn that appended it,
\* as the newest element of the history.
C6_BroadcastOrderIsAppendOrder ==
  /\ [](\A c \in Sessions : \A r \in RoomNames :
          IsSubseq(LiveOf(r, sent[c]), HistoryOf(r)))
  /\ [][\A c \in Sessions :
          (sent'[c] # sent[c] /\ c \in clients' /\ IsLive(Last(sent'[c]))) =>
            /\ Len(roomHistory'[Last(sent'[c]).room])
                 = Len(roomHistory[Last(sent'[c]).room]) + 1
            /\ Last(roomHistory'[Last(sent'[c]).room]) = Last(sent'[c])]_vars

\* a peer received two different live events of one room, in history order
C6_Witness ==
  \E c \in clients : \E r \in RoomNames :
    /\ Len(LiveOf(r, sent[c])) = 2
    /\ LiveOf(r, sent[c])[1] # LiveOf(r, sent[c])[2]
    /\ LiveOf(r, sent[c]) = roomHistory[r]

\* C7: a room's history is append-only: across every turn each room keeps
\* its history as a prefix of the new one, and a disconnect changes none.
C7_AppendOnly ==
  [][/\ \A r \in DOMAIN roomHistory :
          /\ r \in DOMAIN roomHistory'
          /\ IsPrefix(roomHistory[r], roomHistory'[r])
     /\ (clients' # clients \/ readyState' # readyState) => roomHistory' = roomHistory]_vars

\* every session that was in the room when its two events were accepted
\* has disconnected; one that joined afterwards got both in its History
C7_Witness ==
  \E r \in DOMAIN roomHistory : \E ws \in Sessions :
    /\ clients = {ws}
    /\ Len(roomHistory[r]) = 2
    /\ sent[ws] = <<HistoryMsg(r, roomHistory[r])>>
    /\ \E o \in Sessions \ {ws} : readyState[o] = "CLOSED"

\* C8: every element of a room's history is a begin, move or end event.
C8_HistoryOnlyStrokeEvents ==
  \A r \in DOMAIN roomHistory : \A e \in Elems(roomHistory[r]) :
    e.type \in {"begin", "move", "end"}

\* C9: a join from a session in any state binds it to the room of the
\* message and sends one History of that room to that session only; no
\* other outbox and no existing history changes; an absent room starts empty.
C9_JoinBindsAndReplies ==
  [][\A ws \in clients : \A raw \in JoinFrames :
       OnMessage(ws, raw) =>
         /\ room'[ws] = raw.room
         /\ sent'[ws] = <<[type |-> "history", room |-> raw.room,
                           events |-> HistoryOf(raw.room)]>>
         /\ \A c \in Sessions \ {ws} : sent'[c] = sent[c]
         /\ DOMAIN roomHistory' = DOMAIN roomHistory \cup {raw.room}
         /\ \A r \in DOMAIN roomHistory : roomHistory'[r] = roomHistory[r]
         /\ raw.room \notin DOMAIN roomHistory => roomHistory'[raw.room] = <<>>
         /\ UNCHANGED <<clients, readyState, accepted, crashed>>]_vars

\* a session sent an event in r1 (its peer holds it) and then joined r2,
\* whose history has an event: it is bound to r2 with r2's History
C9_Witness ==
  \E ws \in clients : \E c \in clients \ {ws} :
    /\ room[ws] = "r2"
    /\ room[c] = "r1"
    /\ Len(roomHistory["r1"]) = 1
    /\ Len(roomHistory["r2"]) = 1
    /\ sent[ws] = <<HistoryMsg("r2", roomHistory["r2"])>>
    /\ sent[c] = <<HistoryMsg("r1", <<>>), roomHistory["r1"][1]>>

\* C10: an unparseable message changes no server state: bindings,
\* histories, outboxes and connections stay as they were, so every later
\* message is processed as if the bad one had never arrived.
C10_MalformedDropped ==
  [][\A ws \in clients : (caught' /\ OnMessage(ws, BadFrame)) => UNCHANGED ServerState]_vars

\* the only connected session, bound to a room with history, has just had
\* an unparseable message dropped
C10_Witness ==
  \E ws \in Sessions :
    /\ caught
    /\ ~crashed
    /\ clients = {ws}
    /\ readyState[ws] = "OPEN"
    /\ room[ws] = "r1"
    /\ Len(roomHistory["r1"]) >= 1

\* C17: once a session has processed a join, for any room name, every
\* event it sends is appended to the history of that room with that room
\* stamped on it and sent to the other ready sessions bound to that room.
C17_BoundAfterAnyJoin ==
  [][\A ws \in clients : \A raw \in EventFrames :
       (room[ws] # Null /\ OnMessage(ws, raw)) =>
         /\ Len(roomHistory'[room[ws]]) = Len(roomHistory[room[ws]]) + 1
         /\ Last(roomHistory'[room[ws]]).room = room[ws]
         /\ \A c \in clients \ {ws} :
              (readyState[c] = "OPEN" /\ room[c] = room[ws]) =>
                sent'[c] = Append(sent[c], Last(roomHistory'[room[ws]]))]_vars

\* ------------------------------------------------------------ whole system
\* the two pages of the scenario and what the first one draws
PageA == "A"
PageB == "B"
BeginA == BeginEvent("r1", UserOf[PageA], <<10, 10>>)
MoveA == MoveEvent("r1", UserOf[PageA], <<(<<12, 12>>), (<<14, 14>>)>>)
EndA == EndEvent("r1", UserOf[PageA])
\* the History replies of the scenario: to A, to B
HistoryA == HistoryMsg("r1", <<>>)
HistoryB == HistoryMsg("r1", <<BeginA>>)
\* session ws is the open connection of page p, ready to send on both sides
Serves(ws, p) ==
  ws \in clients /\ readyState[ws] = "OPEN" /\ pageOf[ws] = p /\ wsOf[p] = ws
Joined(ws, p) == Serves(ws, p) /\ room[ws] = "r1"
StateFor(p, u) == GetState(remoteStroke[p], u)
\* how many of the frames sent to ws since its join its page has handled
Handled(ws) == Len(sent[ws]) - Len(inflight[ws])

\* the server's turns of the scenario
ScenarioServer(a, b) ==
  /\ (/\ Serves(a, PageA)
      /\ ("r1" \notin DOMAIN roomHistory \/ roomHistory["r1"] = <<>>)
      /\ ServerTurn(a, ClientJoin(PageA, "r1")))
       => /\ sent'[a] = <<HistoryA>>
          /\ inflight'[a] = Append(inflight[a], HistoryA)
          /\ room'[a] = "r1"
  /\ (/\ Joined(a, PageA)
      /\ roomHistory["r1"] = <<>>
      /\ ServerTurn(a, ClientBegin(PageA)))
       => roomHistory'["r1"] = <<BeginA>>
  /\ (/\ Serves(b, PageB)
      /\ "r1" \in DOMAIN roomHistory
      /\ roomHistory["r1"] = <<BeginA>>
      /\ ServerTurn(b, ClientJoin(PageB, "r1")))
       => /\ sent'[b] = <<HistoryB>>
          /\ inflight'[b] = Append(inflight[b], HistoryB)
  /\ (/\ Joined(a, PageA)
      /\ Joined(b, PageB)
      /\ roomHistory["r1"] = <<BeginA>>
      /\ sent[b] = <<HistoryB>>
      /\ ServerTurn(a, ClientMove(PageA)))
       => /\ roomHistory'["r1"] = <<BeginA, MoveA>>
          /\ sent'[b] = <<HistoryB, MoveA>>
          /\ inflight'[b] = Append(inflight[b], MoveA)
          /\ sent'[a] = sent[a]
          /\ inflight'[a] = inflight[a]
  /\ (/\ Joined(a, PageA)
      /\ Joined(b, PageB)
      /\ roomHistory["r1"] = <<BeginA, MoveA>>
      /\ sent[b] = <<HistoryB, MoveA>>
      /\ ServerTurn(a, ClientEnd(PageA)))
       => /\ roomHistory'["r1"] = <<BeginA, MoveA, EndA>>
          /\ sent'[b] = <<HistoryB, MoveA, EndA>>
          /\ inflight'[b] = Append(inflight[b], EndA)
          /\ sent'[a] = sent[a]
          /\ inflight'[a] = inflight[a]

\* page B as far as it has come through the frames of the scenario
ScenarioPage(b) ==
  (Joined(b, PageB) /\ IsPrefix(sent[b], <<HistoryB, MoveA, EndA>>)) =>
    /\ Handled(b) = 1 =>
         StateFor(PageB, UserOf[PageA]) = [drawing |-> TRUE, last |-> <<10, 10>>]
    /\ Handled(b) = 2 =>
         /\ canvas[PageB] = << <<(<<10, 10>>), (<<12, 12>>), (<<14, 14>>)>> >>
         /\ StateFor(PageB, UserOf[PageA]) = [drawing |-> TRUE, last |-> <<14, 14>>]
    /\ Handled(b) = 3 =>
         StateFor(PageB, UserOf[PageA]) = [drawing |-> FALSE, last |-> NoPoint]

\* C16: the scenario, step by step.  A joins the empty room r1 and is sent
\* a History without events; A's begin at [10,10] makes r1's history
\* length 1; B joins and is sent a History with exactly that begin, and
\* once B has handled it B holds {drawing: true, last: [10,10]} for u1;
\* A's move [[12,12],[14,14]] and end are appended and sent to B and not
\* to A; handling the move B strokes the polyline [10,10], [12,12],
\* [14,14], and having handled the end B holds {drawing: false, last: none}.
C16_Scenario ==
  /\ [](\A b \in Sessions : ScenarioPage(b))
  /\ [][\A a \in Sessions : \A b \in Sessions \ {a} : ScenarioServer(a, b)]_vars

\* the scenario has run to its end: A was sent only its empty History, B
\* its History with the begin and then the move and the end, B has handled
\* all three, r1 holds the three events and B's state for u1 is
\* {drawing: false, last: none}
C16_Witness ==
  \E a \in Sessions : \E b \in Sessions \ {a} :
    /\ Joined(a, PageA)
    /\ Joined(b, PageB)
    /\ roomHistory["r1"] = <<BeginA, MoveA, EndA>>
    /\ sent[a] = <<HistoryA>>
    /\ sent[b] = <<HistoryB, MoveA, EndA>>
    /\ inflight[b] = <<>>
    /\ UserOf[PageA] \in DOMAIN remoteStroke[PageB]
    /\ StateFor(PageB, UserOf[PageA]) = [drawing |-> FALSE, last |-> NoPoint]

\* the entries of history h after position n that did not arrive on
\* session ws (o names the session each entry arrived on)
RECURSIVE ByOthers(_, _, _, _)
ByOthers(h, o, n, ws) ==
  IF n >= Len(h) THEN <<>>
  ELSE (IF o[n + 1] # ws THEN <<h[n + 1]>> ELSE <<>>) \o ByOthers(h, o, n + 1, ws)

\* C19: for a ready session bound to room r, the events of its History
\* reply followed by the events sent to it since are r's history without
\* the events the session sent itself after joining: each event of another
\* session once, in history order, none both replayed and sent live.
C19_SnapshotThenLive ==
  \A ws \in clients :
    (readyState[ws] = "OPEN" /\ room[ws] # Null /\ sent[ws] # <<>>) =>
      LET h == roomHistory[room[ws]]
          snap == sent[ws][1].events
      IN /\ sent[ws][1].type = "history"
         /\ IsPrefix(snap, h)
         /\ Tail(sent[ws]) = ByOthers(h, origin[room[ws]], Len(snap), ws)

\* a joined the empty room and sent an event; b joined after it (its
\* snapshot holds that event) and sent one itself, which a was sent live
\* and b was not
C19_Witness ==
  \E a \in clients : \E b \in clients \ {a} :
    /\ readyState[a] = "OPEN"
    /\ readyState[b] = "OPEN"
    /\ room[a] = "r1"
    /\ room[b] = "r1"
    /\ origin["r1"] = <<a, b>>
    /\ Len(roomHistory["r1"]) = 2
    /\ sent[a] = <<HistoryMsg("r1", <<>>), roomHistory["r1"][2]>>
    /\ sent[b] = <<HistoryMsg("r1", <<roomHistory["r1"][1]>>)>>

\* ------------------------------------------------- remote reconstruction
StrokeTypes == {"begin", "move", "end"}

\* the events of user u in a snapshot, in array order
EventsOf(evs, u) == SelectSeq(evs, LAMBDA e : e.userId = u /\ e.type \in StrokeTypes)

\* the state one event leaves for its user, whatever the state before
LeftBy(e) ==
  IF e.type = "begin" THEN [drawing |-> TRUE, last |-> e.body.p]
  ELSE IF e.type = "move"
    THEN [drawing |-> TRUE,
          last |-> IF e.body.pts = <<>> THEN NoPoint ELSE Last(e.body.pts)]
  ELSE [drawing |-> FALSE, last |-> NoPoint]

\* what a snapshot alone determines: per user in it, its last event
Summary(evs) ==
  [u \in {e.userId : e \in {x \in Elems(evs) : x.type \in StrokeTypes}} |->
     LeftBy(Last(EventsOf(evs, u)))]

\* C11: from every state the viewer's map can be in, the remote state
\* after a History message is a function of the snapshot alone (per user,
\* what that user's last event in it leaves), and processing the same
\* snapshot again leaves it as it is.
C11_ReplayDependsOnSnapshotOnly ==
  \A evs \in Snapshots :
    LET after == onHistory(remoteStroke[Viewer], HistoryMsg("r1", evs))
    IN /\ after = Summary(evs)
       /\ onHistory(after, HistoryMsg("r1", evs)) = after

\* a replay of two moves of u1 (two polylines in one turn) has left the
\* state of u1 alone, at the last point of the second move
C11_Witness ==
  /\ Len(canvas[Viewer]) = 2
  /\ DOMAIN remoteStroke[Viewer] = {"u1"}
  /\ remoteStroke[Viewer]["u1"] = [drawing |-> TRUE, last |-> <<14, 14>>]

\* C12: a move with an empty points array draws nothing and leaves the
\* sending user's drawing flag and last point as they were.
C12_EmptyMoveIsNoOp ==
  [][\A msg \in RemoteEvents :
       (msg.type = "move" /\ msg.body.pts = <<>> /\ onmessage(Viewer, msg)) =>
         /\ canvas'[Viewer] = <<>>
         /\ GetState(remoteStroke'[Viewer], msg.userId)
              = GetState(remoteStroke[Viewer], msg.userId)]_vars

\* C13: a move with points strokes exactly one polyline and sets the
\* user's last to the final point: without a stored last the polyline is
\* the supplied points, from points[0]; with one it starts at the stored
\* last and runs through the supplied points.
C13_MovePolyline ==
  [][\A msg \in RemoteEvents :
       (msg.type = "move" /\ msg.body.pts # <<>> /\ onmessage(Viewer, msg)) =>
         LET before == GetState(remoteStroke[Viewer], msg.userId).last
             pts == msg.body.pts
         IN /\ Len(canvas'[Viewer]) = 1
            /\ IF before = NoPoint
                 THEN canvas'[Viewer][1] = pts
                 ELSE /\ Head(canvas'[Viewer][1]) = before
                      /\ Tail(canvas'[Viewer][1]) = pts
            /\ remoteStroke'[Viewer][msg.userId].last = pts[Len(pts)]
            /\ remoteStroke'[Viewer][msg.userId].drawing]_vars

\* no last point was stored for u1 (u2 has one, from its begin) when its
\* two-point move arrived: the polyline is the two points, from the first
C13_Witness ==
  /\ canvas[Viewer] = << <<(<<12, 12>>), (<<14, 14>>)>> >>
  /\ DOMAIN remoteStroke[Viewer] = {"u1", "u2"}
  /\ remoteStroke[Viewer]["u1"] = [drawing |-> TRUE, last |-> <<14, 14>>]
  /\ remoteStroke[Viewer]["u2"] = [drawing |-> TRUE, last |-> <<10, 10>>]

\* ------------------------------------------------------------ send path
Moves(w) == SelectSeq(w, LAMBDA m : m.type = "move")

\* the points of a sequence of messages, in transmission order
RECURSIVE PointsOf(_)
PointsOf(w) == IF w = <<>> THEN <<>> ELSE Head(w).pts \o PointsOf(Tail(w))

\* sample n has been transmitted
Transmitted(n) == \E i \in DOMAIN wire : wire[i].type = "move" /\ n \in Elems(wire[i].pts)

\* the samples pushed so far, in sampling order
Samples == [n \in 1..Len(sampled) |-> n]

\* C14 as stated: every point pushed is eventually contained in a
\* transmitted move, whatever the transport does, and never in two.
C14_EveryPointEventuallySent ==
  \A n \in 1..MaxSamples : [](n <= Len(sampled) => <>Transmitted(n))

\* C14 as amended: every point pushed is either still buffered or in exactly
\* one transmitted move, in sampling order, and when an end has been
\* transmitted nothing is left in the buffer.
C14_SentOnceOrBuffered ==
  /\ PointsOf(Moves(wire)) \o moveBuffer = Samples
  /\ (wire # <<>> /\ Last(wire).type = "end") => moveBuffer = <<>>

\* a stroke of two samples has ended: the timer flushed the first, the
\* forced flush of pointer-up the second while its timer was still armed
C14_Witness ==
  /\ Len(wire) = 5
  /\ Last(wire).type = "end"
  /\ flushTimer
  /\ Len(Moves(wire)) = 2
  /\ PointsOf(Moves(wire)) = <<1, 2>>

\* C15: a point pushed while an earlier connection was current is never
\* transmitted on a later connection.
C15_BufferNotMigrated ==
  \A i \in DOMAIN wire :
    wire[i].type = "move" => \A n \in Elems(wire[i].pts) : sampled[n].conn = wire[i].conn

\* position in the send log of the k-th begin
RECURSIVE BeginAt(_, _)
BeginAt(k, from) ==
  IF wire[from].type = "begin"
    THEN (IF k = 1 THEN from ELSE BeginAt(k - 1, from + 1))
    ELSE BeginAt(k, from + 1)

\* what was sent for stroke k: from after its begin to before the next begin
SentFor(k) ==
  LET a == BeginAt(k, 1)
      b == IF k < Begins THEN BeginAt(k + 1, 1) - 1 ELSE Len(wire)
  IN SubSeq(wire, a + 1, b)

\* the part of a stroke's messages up to (without) its first end
RECURSIVE UntilEnd(_)
UntilEnd(w) ==
  IF w = <<>> \/ Head(w).type = "end" THEN <<>> ELSE <<Head(w)>> \o UntilEnd(Tail(w))

\* the samples pushed under stroke k, in sampling order
StrokeSamples(k) ==
  SelectSeq(Samples, LAMBDA n : sampled[n].stroke = k)

\* C18: for each stroke the moves transmitted before its end carry, joined
\* in order, the points sampled for it (all of them once its end is sent:
\* the buffered rest goes out in a move before the end), and no move is
\* transmitted for a stroke after its end.
C18_OrderAndFraming ==
  \A k \in 1..Begins :
    LET sentFor == SentFor(k)
        before == UntilEnd(sentFor)
    IN /\ IsPrefix(PointsOf(Moves(before)), StrokeSamples(k))
       /\ Len(before) < Len(sentFor) =>
            /\ PointsOf(Moves(before)) = StrokeSamples(k)
            /\ Moves(SubSeq(sentFor, Len(before) + 1, Len(sentFor))) = <<>>

\* what was sent on connection c, in order
SentOn(c) == SelectSeq(wire, LAMBDA m : m.conn = c)

\* a begin is open after these messages: the latest begin has no end after it
RECURSIVE BeginOpen(_)
BeginOpen(w) ==
  IF w = <<>> THEN FALSE
  ELSE IF Last(w).type = "begin" THEN TRUE
  ELSE IF Last(w).type = "end" THEN FALSE
  ELSE BeginOpen(SubSeq(w, 1, Len(w) - 1))

\* C20: on every connection the first message is the join and every move
\* and every end is preceded, on that connection, by a begin with no end
\* in between.
C20_WellFramed ==
  \A c \in 1..MaxConnections :
    LET on == SentOn(c)
    IN \A i \in DOMAIN on :
         /\ (i = 1) = (on[i].type = "join")
         /\ on[i].type \in {"move", "end"} => BeginOpen(SubSeq(on, 1, i - 1))

====
